---- MODULE Spec2Model ----
(***************************************************************************)
(* Model of the audio playback manager of xiangqi-pygame                   *)
(* (src/xiangqi/audio/audio_manager.py) together with the part of the      *)
(* pygame mixer it drives: a fixed pool of channels, each idle or playing  *)
(* one sound, that finish asynchronously.                                  *)
(*                                                                         *)
(* Time is counted in seconds; time.time() is read as `now`.  A volume is  *)
(* counted in sixteenths: Unit stands for 1.0.  SoundEffect.play_sequence  *)
(* (src/xiangqi/audio/soundeffect.py) and the pygame timers it sets are    *)
(* modelled with their times in milliseconds.                              *)
(***************************************************************************)
EXTENDS Integers, Sequences, FiniteSets, TLC

VARIABLES
    now,                \* the wall clock read by time.time()
    num_channels,       \* pygame.mixer.get_num_channels(), fixed at start
    chan,               \* mixer: channel id -> what it is playing
    sounds,             \* self.sounds (the set of loaded names)
    sound_configs,      \* self.sound_configs
    playing_instances,  \* self.playing_instances
    last_play_time,     \* self.last_play_time
    play_count,         \* self.play_count
    master_volume,      \* self.master_volume
    sfx_volume,         \* self.sfx_volume
    sound_volume,       \* the volume of each loaded pygame.mixer.Sound
    paused,             \* mixer: the channels that are paused
    plays,              \* history: the successful plays so far
    streak,             \* history: successful plays of a name since one of
                        \* its playbacks last completed, was stopped or swept
    last,               \* history: the last manager call and its result
    sound_names,        \* play_sequence: its argument sound_names
    delays,             \* play_sequence: its list delays, once padded
    sequence_volume,    \* play_sequence: its argument volume
    position,           \* play_sequence: the index its loop is at
    outcome,            \* play_sequence: not called, in its loop, returned
                        \* or left by an exception
    started,            \* history: the indexes play_sequence played at once,
                        \* each with the result of play
    timers,             \* pygame.time: index of a pending timer -> the
                        \* milliseconds after the call at which it fires
    fired               \* history: the timers that fired, in order, each
                        \* with its time

vars == <<now, num_channels, chan, sounds, sound_configs, playing_instances,
          last_play_time, play_count, master_volume, sfx_volume, sound_volume,
          paused, plays, streak, last, sound_names, delays,
          sequence_volume, position, outcome, started, timers, fired>>

\* the state of play_sequence and of the timers
timing ==
    <<sound_names, delays, sequence_volume, position, outcome, started,
      timers, fired>>

----------------------------------------------------------------------------
(* Bounds of the model *)

MaxChannels == 2

\* the clock is followed for MaxTicks steps
MaxTicks == 1

\* successful plays that are followed
MaxPlays == 3

\* calls of play that are followed among the volume and pause calls
MaxControlPlays == 1

\* the longest list of sounds passed to play_sequence
MaxSequence == 3

----------------------------------------------------------------------------
(* Configuration *)

\* update(): max_age = 10.0
MaxAge == 10

\* the clock is observed in steps of the staleness bound
Step == MaxAge

MaxTime == MaxTicks * Step

\* the volume 1.0
Unit == 16

\* AudioConfig.MASTER_VOLUME and AudioConfig.SFX_VOLUME
MASTER_VOLUME == Unit

SFX_VOLUME == Unit

\* AudioConfig.MAX_SOUND_INSTANCES, the process-wide default
MAX_SOUND_INSTANCES == 2

\* AudioConfig.MIN_PLAY_DELAY, the process-wide default
MIN_PLAY_DELAY == 0

\* every sound name a caller may pass
Names == {"a", "b", "x"}

\* names for which os.path.exists(AudioConfig.get_sfx_path(name)) is true
FileExists == {"a", "b", "d"}

\* names whose file pygame.mixer.Sound(file_path) fails to decode
DecodeFails == {"d"}

\* file_path = None and category = None
NoPath == "None"

NoCategory == "None"

\* the paths passed to load_sound: none, or the file of the sound of that
\* name in the effects folder (the one of "x" does not exist, the one of "d"
\* does not decode)
PathInputs == {NoPath, "a", "d", "x"}

\* the categories passed to load_sound
CategoryInputs == {NoCategory, "ui"}

\* the volumes passed to play: 0.5, 1.0, 2.0
PlayVolumes == {Unit \div 2, Unit, 2 * Unit}

\* AudioConfig.SOUND_MAPPINGS, the static configuration table
SOUND_MAPPINGS ==
    [n \in {"a", "x", "d"} |->
        IF n = "a"
        THEN [category |-> "piece", max_instances |-> 2, min_delay |-> Step,
              volume |-> Unit \div 2]
        ELSE [category |-> "piece", max_instances |-> 1, min_delay |-> 0,
              volume |-> Unit]]

\* the order in which AudioConfig.SOUND_MAPPINGS.items() yields the table
MappingOrder == <<"x", "d", "a">>

\* AudioConfig.get_all_sfx_files(): the files of the effects folder, by name,
\* in the order the dict yields them
SfxFiles == <<"a", "b", "d">>

\* load_sound: the default configuration of a name outside the table, under
\* the category passed (category or SoundCategory.OTHER)
DefaultConfigFor(category) ==
    [category |-> IF category = NoCategory THEN "other" ELSE category,
     max_instances |-> MAX_SOUND_INSTANCES, min_delay |-> MIN_PLAY_DELAY,
     volume |-> Unit]

\* the default configuration when no category is passed
DefaultConfig == DefaultConfigFor(NoCategory)

\* load_sound: the configuration stored for a name when it is loaded
ConfigFor(n, category) ==
    IF n \in DOMAIN SOUND_MAPPINGS THEN SOUND_MAPPINGS[n]
    ELSE DefaultConfigFor(category)

\* the configuration stored by load_sound(sound_name)
ConfigOf(n) == ConfigFor(n, NoCategory)

----------------------------------------------------------------------------
(* Helpers *)

\* a mixer channel that is not playing
Idle == [snd |-> "none", since |-> 0]

\* pygame.mixer.Channel(c).get_busy()
Busy(ch, c) == ch[c].snd # "none"

\* @dataclass SoundInstance
SoundInstance(n, t, c) == [sound_name |-> n, start_time |-> t, channel_id |-> c]

\* dict update d[k] = v
Put(d, k, v) == [x \in (DOMAIN d) \cup {k} |-> IF x = k THEN v ELSE d[x]]

\* dict.get(k, default)
Get(d, k, default) == IF k \in DOMAIN d THEN d[k] ELSE default

\* list.remove(x): drops the first element equal to x
RECURSIVE RemoveFirst(_, _)
RemoveFirst(s, x) ==
    IF s = <<>> THEN <<>>
    ELSE IF Head(s) = x THEN Tail(s)
    ELSE <<Head(s)>> \o RemoveFirst(Tail(s), x)

\* the clamp without its upper bound
Clamp_NoUpperBound(v) == IF v < 0 THEN 0 ELSE v

\* max(0.0, min(1.0, v))
Clamp(v) == IF v < 0 THEN 0 ELSE IF v > Unit THEN Unit ELSE v

\* the product x * y of two volumes
Mul(x, y) == (x * y) \div Unit

\* sum(1 for i in self.playing_instances if i.sound_name == n)
CountOf(insts, n) ==
    Cardinality({k \in 1 .. Len(insts) : insts[k].sound_name = n})

----------------------------------------------------------------------------
(* AudioManager *)

\* _can_play_sound with the interval comparison reversed
CanPlaySound_RateReversed(n, config, t) ==
    IF /\ n \in DOMAIN last_play_time
       /\ t - last_play_time[n] > config.min_delay
    THEN "RateLimited"
    ELSE IF CountOf(playing_instances, n) >= config.max_instances
    THEN "ConcurrencyLimited"
    ELSE "ok"

\* _can_play_sound with the instance limit off by one
CanPlaySound_OffByOne(n, config, t) ==
    IF /\ n \in DOMAIN last_play_time
       /\ t - last_play_time[n] < config.min_delay
    THEN "RateLimited"
    ELSE IF CountOf(playing_instances, n) > config.max_instances
    THEN "ConcurrencyLimited"
    ELSE "ok"

\* _can_play_sound counting only the instances whose channel is busy
CanPlaySound_BusyOnly(n, config, t) ==
    IF /\ n \in DOMAIN last_play_time
       /\ t - last_play_time[n] < config.min_delay
    THEN "RateLimited"
    ELSE IF Cardinality({k \in 1 .. Len(playing_instances) :
                /\ playing_instances[k].sound_name = n
                /\ Busy(chan, playing_instances[k].channel_id)})
            >= config.max_instances
    THEN "ConcurrencyLimited"
    ELSE "ok"

\* _can_play_sound(sound_name, config) with time.time() = t; the value names
\* the check that returned False
CanPlaySound(n, config, t) ==
    IF /\ n \in DOMAIN last_play_time
       /\ t - last_play_time[n] < config.min_delay
    THEN "RateLimited"
    ELSE IF CountOf(playing_instances, n) >= config.max_instances
    THEN "ConcurrencyLimited"
    ELSE "ok"

\* min(self.playing_instances, key=lambda x: x.start_time): the first
\* instance, in list order, whose start time is the least
OldestInstance(insts) ==
    LET k == CHOOSE k \in 1 .. Len(insts) :
                 /\ \A j \in 1 .. Len(insts) :
                        insts[k].start_time <= insts[j].start_time
                 /\ \A j \in 1 .. (k - 1) :
                        insts[j].start_time > insts[k].start_time
    IN insts[k]

\* _find_available_channel(): the channel returned (-1 for None), the mixer
\* and the instance list it leaves
FindAvailableChannel(ch, insts) ==
    IF \E c \in DOMAIN ch : ~Busy(ch, c)
    THEN [channel |-> CHOOSE c \in DOMAIN ch :
                          /\ ~Busy(ch, c)
                          /\ \A d \in DOMAIN ch : d < c => Busy(ch, d),
          ch |-> ch, insts |-> insts]
    ELSE IF insts # <<>>
    THEN LET oldest == OldestInstance(insts)
         IN [channel |-> oldest.channel_id,
             ch |-> [ch EXCEPT ![oldest.channel_id] = Idle],
             insts |-> SelectSeq(insts,
                           LAMBDA i : i.channel_id # oldest.channel_id)]
    ELSE [channel |-> -1, ch |-> ch, insts |-> insts]

\* load_sound: the file read, AudioConfig.get_sfx_path(sound_name) when no
\* path is passed
FilePath(n, path) == IF path = NoPath THEN n ELSE path

\* load_sound(sound_name, file_path) returns True: the sound is loaded
\* already, or the file exists and pygame.mixer.Sound decodes it
CanLoad(n, path) ==
    \/ n \in sounds
    \/ FilePath(n, path) \in FileExists /\ FilePath(n, path) \notin DecodeFails

\* load_sound(sound_name, file_path, category): the tables it leaves
\* (unchanged when it fails or when the sound is already loaded)
LoadedSounds(n, path, category) ==
    IF CanLoad(n, path) THEN sounds \cup {n} ELSE sounds

LoadedConfigs(n, path, category) ==
    IF n \notin sounds /\ CanLoad(n, path)
    THEN Put(sound_configs, n, ConfigFor(n, category)) ELSE sound_configs

\* load_sound keeping a play count left from before the load
LoadedCounts_KeepsOld(n, path, category) ==
    IF n \notin sounds /\ CanLoad(n, path) /\ n \notin DOMAIN play_count
    THEN Put(play_count, n, 0) ELSE play_count

\* load_sound without the early return for a sound that is already loaded
LoadedCounts_AlwaysResets(n, path, category) ==
    IF CanLoad(n, path) THEN Put(play_count, n, 0) ELSE play_count

LoadedCounts(n, path, category) ==
    IF n \notin sounds /\ CanLoad(n, path)
    THEN Put(play_count, n, 0) ELSE play_count

\* load_sound: sound.set_volume(volume * master_volume * sfx_volume)
LoadedVolumes(n, path, category) ==
    IF n \notin sounds /\ CanLoad(n, path)
    THEN Put(sound_volume, n,
             Mul(Mul(ConfigFor(n, category).volume, master_volume),
                 sfx_volume))
    ELSE sound_volume

\* play: base_volume * volume * master_volume * sfx_volume, clamped to [0, 1]
FinalVolume(config, volume) ==
    Clamp(Mul(Mul(Mul(config.volume, volume), master_volume), sfx_volume))

\* play(sound_name, volume=1.0): the default of the volume argument
DefaultVolume == Unit

\* _update_all_volumes() under master volume m and effects volume s
UpdateAllVolumes(m, s) ==
    [n \in sounds |-> Mul(Mul(Get(sound_configs, n, DefaultConfig).volume, m), s)]

\* the record kept of the last manager call
Call(op, n, res, count) == [op |-> op, name |-> n, res |-> res, count |-> count]

\* stop_sound: the loop over self.playing_instances[:], from position k of the
\* copy, with the live list, the mixer and the count so far
RECURSIVE StopLoop(_, _, _, _, _, _)
StopLoop(copy, k, n, insts, ch, cnt) ==
    IF k > Len(copy) THEN [insts |-> insts, ch |-> ch, count |-> cnt]
    ELSE IF copy[k].sound_name = n /\ Busy(ch, copy[k].channel_id)
    THEN StopLoop(copy, k + 1, n, RemoveFirst(insts, copy[k]),
                  [ch EXCEPT ![copy[k].channel_id] = Idle], cnt + 1)
    ELSE StopLoop(copy, k + 1, n, insts, ch, cnt)

\* get_playing_sounds(), as a set
GetPlayingSounds ==
    {playing_instances[k].sound_name : k \in
        {j \in 1 .. Len(playing_instances) :
            Busy(chan, playing_instances[j].channel_id)}}

\* SoundEffect.get_status()['available_channels']
AvailableChannels == num_channels - Len(playing_instances)

\* the names whose playback a step from mixer ch to mixer ch2 ended
Ended(ch, ch2) == {ch[c].snd : c \in {d \in DOMAIN ch : Busy(ch, d) /\ ch2[d] # ch[d]}}

\* get_sound_info(sound_name): the configuration with the play count, or
\* NoInfo for None
NoInfo == [is_loaded |-> FALSE]

GetSoundInfo(n) ==
    IF n \in sounds
    THEN [config |-> Get(sound_configs, n, DefaultConfig),
          play_count |-> Get(play_count, n, 0),
          is_loaded |-> TRUE]
    ELSE NoInfo

\* the tables of a manager that has loaded nothing
EmptyTables ==
    [sounds |-> {}, configs |-> [n \in {} |-> DefaultConfig],
     counts |-> [n \in {} |-> 0], volumes |-> [n \in {} |-> 0],
     results |-> [n \in {} |-> FALSE]]

\* load_configured_sounds with the try around the whole loop: the first
\* failure ends it
RECURSIVE LoadConfigured_AbortsOnFailure(_, _, _, _)
LoadConfigured_AbortsOnFailure(order, t, m, s) ==
    IF order = <<>> THEN t
    ELSE LET n == Head(order)
         IN IF n \in FileExists /\ n \notin DecodeFails
            THEN LoadConfigured_AbortsOnFailure(Tail(order),
                     [sounds |-> t.sounds \cup {n},
                      configs |-> Put(t.configs, n, SOUND_MAPPINGS[n]),
                      counts |-> Put(t.counts, n, 0),
                      volumes |-> Put(t.volumes, n,
                                      Mul(Mul(SOUND_MAPPINGS[n].volume, m), s)),
                      results |-> Put(t.results, n, TRUE)], m, s)
            ELSE [t EXCEPT !.results = Put(t.results, n, FALSE)]

\* load_configured_sounds(): the loop over the table in the given order, from
\* tables t, under master volume m and effects volume s
RECURSIVE LoadConfigured(_, _, _, _)
LoadConfigured(order, t, m, s) ==
    IF order = <<>> THEN t
    ELSE LET n == Head(order)
         IN IF n \in FileExists /\ n \notin DecodeFails
            THEN LoadConfigured(Tail(order),
                     [sounds |-> t.sounds \cup {n},
                      configs |-> Put(t.configs, n, SOUND_MAPPINGS[n]),
                      counts |-> Put(t.counts, n, 0),
                      volumes |-> Put(t.volumes, n,
                                      Mul(Mul(SOUND_MAPPINGS[n].volume, m), s)),
                      results |-> Put(t.results, n, TRUE)], m, s)
            ELSE LoadConfigured(Tail(order),
                     [t EXCEPT !.results = Put(t.results, n, FALSE)], m, s)

----------------------------------------------------------------------------
(* State machine *)

\* __init__ / _init_audio_system: empty tables, then load_configured_sounds
Init ==
    /\ now = 0
    /\ num_channels \in 0 .. MaxChannels
    /\ chan = [c \in 0 .. (num_channels - 1) |-> Idle]
    /\ master_volume = MASTER_VOLUME
    /\ sfx_volume = SFX_VOLUME
    /\ LET r == LoadConfigured(MappingOrder, EmptyTables,
                               MASTER_VOLUME, SFX_VOLUME)
       IN /\ sounds = r.sounds
          /\ sound_configs = r.configs
          /\ play_count = r.counts
          /\ sound_volume = r.volumes
    /\ playing_instances = <<>>
    /\ last_play_time = [n \in {} |-> 0]
    /\ paused = {}
    /\ plays = 0
    /\ streak = [n \in Names |-> 0]
    /\ last = Call("init", "none", "ok", 0)
    /\ sound_names = <<>>
    /\ delays = <<>>
    /\ sequence_volume = DefaultVolume
    /\ position = 0
    /\ outcome = "idle"
    /\ started = <<>>
    /\ timers = [k \in {} |-> 0]
    /\ fired = <<>>

\* play(sound_name, volume): the on-demand load fails
PlayNotLoaded(n, v) ==
    /\ ~CanLoad(n, NoPath)
    /\ last' = Call("play", n, "NotLoaded", v)
    /\ UNCHANGED <<plays, now, num_channels, chan, sounds, sound_configs,
                   playing_instances, last_play_time, play_count, streak,
                   master_volume, sfx_volume, sound_volume, paused>>

\* play(sound_name, volume): _can_play_sound returns False
PlayRejected(n, v) ==
    /\ CanLoad(n, NoPath)
    /\ CanPlaySound(n, LoadedConfigs(n, NoPath, NoCategory)[n], now) # "ok"
    /\ sounds' = LoadedSounds(n, NoPath, NoCategory)
    /\ sound_configs' = LoadedConfigs(n, NoPath, NoCategory)
    /\ play_count' = LoadedCounts(n, NoPath, NoCategory)
    /\ sound_volume' = LoadedVolumes(n, NoPath, NoCategory)
    /\ last' = Call("play", n,
                    CanPlaySound(n, LoadedConfigs(n, NoPath, NoCategory)[n],
                                 now), v)
    /\ UNCHANGED <<plays, now, num_channels, chan, playing_instances,
                   last_play_time, streak, master_volume, sfx_volume, paused>>

\* play(sound_name, volume): the volume is set, then _find_available_channel
\* returns None
PlayNoChannel(n, v) ==
    /\ CanLoad(n, NoPath)
    /\ CanPlaySound(n, LoadedConfigs(n, NoPath, NoCategory)[n], now) = "ok"
    /\ FindAvailableChannel(chan, playing_instances).channel = -1
    /\ sounds' = LoadedSounds(n, NoPath, NoCategory)
    /\ sound_configs' = LoadedConfigs(n, NoPath, NoCategory)
    /\ play_count' = LoadedCounts(n, NoPath, NoCategory)
    /\ chan' = FindAvailableChannel(chan, playing_instances).ch
    /\ playing_instances' = FindAvailableChannel(chan, playing_instances).insts
    /\ sound_volume' =
           Put(LoadedVolumes(n, NoPath, NoCategory), n,
               FinalVolume(LoadedConfigs(n, NoPath, NoCategory)[n], v))
    /\ last' = Call("play", n, "NoChannelAvailable", v)
    /\ UNCHANGED <<plays, now, num_channels, last_play_time, streak,
                   master_volume, sfx_volume, paused>>

\* play(sound_name, volume): the volume is set and the sound starts on the
\* channel found; the clock is read once by _can_play_sound and again, e
\* later, after channel.play
PlayStarted(n, v, e) ==
    /\ CanLoad(n, NoPath)
    /\ CanPlaySound(n, LoadedConfigs(n, NoPath, NoCategory)[n], now) = "ok"
    /\ FindAvailableChannel(chan, playing_instances).channel # -1
    /\ now + e <= MaxTime
    /\ plays < MaxPlays
    /\ LET f == FindAvailableChannel(chan, playing_instances)
           current_time == now + e
           counts == LoadedCounts(n, NoPath, NoCategory)
       IN /\ chan' = [f.ch EXCEPT ![f.channel] =
                         [snd |-> n, since |-> current_time]]
          /\ playing_instances' =
                 Append(f.insts, SoundInstance(n, current_time, f.channel))
          /\ last_play_time' = Put(last_play_time, n, current_time)
          /\ play_count' = Put(counts, n, Get(counts, n, 0) + 1)
          /\ now' = current_time
          /\ paused' = paused \ {f.channel}
    /\ sounds' = LoadedSounds(n, NoPath, NoCategory)
    /\ sound_configs' = LoadedConfigs(n, NoPath, NoCategory)
    /\ sound_volume' =
           Put(LoadedVolumes(n, NoPath, NoCategory), n,
               FinalVolume(LoadedConfigs(n, NoPath, NoCategory)[n], v))
    /\ plays' = plays + 1
    /\ streak' = [streak EXCEPT ![n] = @ + 1]
    /\ last' = Call("play", n, "ok", v)
    /\ UNCHANGED <<num_channels, master_volume, sfx_volume>>

\* play(sound_name, volume)
Play(n, v) ==
    \/ PlayNotLoaded(n, v)
    \/ PlayRejected(n, v)
    \/ PlayNoChannel(n, v)
    \/ \E e \in {0, Step} : PlayStarted(n, v, e)

\* load_sound(sound_name, file_path, category)
LoadSound(n, path, category) ==
    /\ sounds' = LoadedSounds(n, path, category)
    /\ sound_configs' = LoadedConfigs(n, path, category)
    /\ play_count' = LoadedCounts(n, path, category)
    /\ sound_volume' = LoadedVolumes(n, path, category)
    /\ last' = Call("load_sound", n,
                    IF CanLoad(n, path) THEN "ok" ELSE "NotFound", 0)
    /\ UNCHANGED <<plays, now, num_channels, timing, chan, playing_instances,
                   last_play_time, streak, master_volume, sfx_volume, paused>>

\* load_all_sfx(): the loop over the files of the effects folder from
\* position k, each sound not yet loaded being loaded from its file, with the
\* tables so far
RECURSIVE LoadAllLoop(_, _, _, _)
LoadAllLoop(k, t, m, s) ==
    IF k > Len(SfxFiles) THEN t
    ELSE LET n == SfxFiles[k]
         IN IF n \in t.sounds THEN LoadAllLoop(k + 1, t, m, s)
            ELSE IF n \in FileExists /\ n \notin DecodeFails
            THEN LoadAllLoop(k + 1,
                     [sounds |-> t.sounds \cup {n},
                      configs |-> Put(t.configs, n, ConfigFor(n, NoCategory)),
                      counts |-> Put(t.counts, n, 0),
                      volumes |-> Put(t.volumes, n,
                          Mul(Mul(ConfigFor(n, NoCategory).volume, m), s)),
                      results |-> Put(t.results, n, TRUE)], m, s)
            ELSE LoadAllLoop(k + 1,
                     [t EXCEPT !.results = Put(t.results, n, FALSE)], m, s)

\* load_all_sfx(); the count kept is the number of True results
LoadAllSfx ==
    LET r == LoadAllLoop(1, [sounds |-> sounds, configs |-> sound_configs,
                             counts |-> play_count, volumes |-> sound_volume,
                             results |-> [n \in {} |-> FALSE]],
                         master_volume, sfx_volume)
    IN /\ sounds' = r.sounds
       /\ sound_configs' = r.configs
       /\ play_count' = r.counts
       /\ sound_volume' = r.volumes
       /\ last' = Call("load_all_sfx", "none", "ok",
                       Cardinality({n \in DOMAIN r.results : r.results[n]}))
       /\ UNCHANGED <<plays, now, num_channels, timing, chan,
                      playing_instances, last_play_time, streak,
                      master_volume, sfx_volume, paused>>

\* stop_all that halts the mixer and keeps the list
StopAll_MixerOnly ==
    /\ chan' = [c \in DOMAIN chan |-> Idle]
    /\ paused' = {}
    /\ streak' = [n \in Names |-> 0]
    /\ last' = Call("stop_all", "none", "ok", 0)
    /\ UNCHANGED <<plays, now, num_channels, timing, sounds, sound_configs,
                   last_play_time, play_count, master_volume, sfx_volume,
                   sound_volume, playing_instances>>

\* stop_all()
StopAll ==
    /\ chan' = [c \in DOMAIN chan |-> Idle]
    /\ playing_instances' = <<>>
    /\ streak' = [n \in Names |-> 0]
    /\ paused' = {}
    /\ last' = Call("stop_all", "none", "ok", 0)
    /\ UNCHANGED <<plays, now, num_channels, timing, sounds, sound_configs,
                   last_play_time, play_count, master_volume, sfx_volume,
                   sound_volume>>

\* stop_sound(sound_name)
StopSound(n) ==
    LET r == StopLoop(playing_instances, 1, n, playing_instances, chan, 0)
    IN /\ chan' = r.ch
       /\ playing_instances' = r.insts
       /\ streak' = [m \in Names |->
                        IF m = n \/ m \in Ended(chan, r.ch) THEN 0 ELSE streak[m]]
       /\ paused' = {c \in paused : Busy(r.ch, c)}
       /\ last' = Call("stop_sound", n, "ok", r.count)
       /\ UNCHANGED <<plays, now, num_channels, timing, sounds, sound_configs,
                      last_play_time, play_count, master_volume, sfx_volume,
                      sound_volume>>

\* update keeping the instances that are exactly max_age old
Update_KeepsBoundary ==
    /\ playing_instances' =
           SelectSeq(playing_instances, LAMBDA i : now - i.start_time <= MaxAge)
    /\ streak' = [m \in Names |->
                     IF \E k \in 1 .. Len(playing_instances) :
                            /\ playing_instances[k].sound_name = m
                            /\ ~(now - playing_instances[k].start_time <= MaxAge)
                     THEN 0 ELSE streak[m]]
    /\ last' = Call("update", "none", "ok", 0)
    /\ UNCHANGED <<plays, now, num_channels, timing, chan, sounds, sound_configs,
                   last_play_time, play_count, master_volume, sfx_volume,
                   sound_volume, paused>>

\* update()
Update ==
    /\ playing_instances' =
           SelectSeq(playing_instances, LAMBDA i : now - i.start_time < MaxAge)
    /\ streak' = [m \in Names |->
                     IF \E k \in 1 .. Len(playing_instances) :
                            /\ playing_instances[k].sound_name = m
                            /\ ~(now - playing_instances[k].start_time < MaxAge)
                     THEN 0 ELSE streak[m]]
    /\ last' = Call("update", "none", "ok", 0)
    /\ UNCHANGED <<plays, now, num_channels, timing, chan, sounds, sound_configs,
                   last_play_time, play_count, master_volume, sfx_volume,
                   sound_volume, paused>>

\* cleanup that stops everything and keeps the loaded sounds
Cleanup_KeepsSounds ==
    /\ chan' = [c \in DOMAIN chan |-> Idle]
    /\ playing_instances' = <<>>
    /\ streak' = [n \in Names |-> 0]
    /\ paused' = {}
    /\ last' = Call("cleanup", "none", "ok", 0)
    /\ UNCHANGED <<plays, now, num_channels, timing, last_play_time, play_count,
                   master_volume, sfx_volume, sounds, sound_configs,
                   sound_volume>>

\* cleanup()
Cleanup ==
    /\ chan' = [c \in DOMAIN chan |-> Idle]
    /\ sounds' = {}
    /\ sound_configs' = [n \in {} |-> DefaultConfig]
    /\ playing_instances' = <<>>
    /\ streak' = [n \in Names |-> 0]
    /\ sound_volume' = [n \in {} |-> 0]
    /\ paused' = {}
    /\ last' = Call("cleanup", "none", "ok", 0)
    /\ UNCHANGED <<plays, now, num_channels, timing, last_play_time, play_count,
                   master_volume, sfx_volume>>

\* the mixer finishes the sound on channel c
ChannelFinish(c) ==
    /\ Busy(chan, c)
    /\ c \notin paused
    /\ chan' = [chan EXCEPT ![c] = Idle]
    /\ streak' = [streak EXCEPT ![chan[c].snd] = 0]
    /\ UNCHANGED <<plays, now, num_channels, timing, sounds, sound_configs,
                   playing_instances, last_play_time, play_count, last,
                   master_volume, sfx_volume, sound_volume, paused>>

\* the clock advances
Tick ==
    /\ now < MaxTime
    /\ now' = now + Step
    /\ UNCHANGED <<plays, num_channels, timing, chan, sounds, sound_configs,
                   playing_instances, last_play_time, play_count, streak, last,
                   master_volume, sfx_volume, sound_volume, paused>>

\* the manager called with the optional arguments of play and load_sound at
\* their defaults, load_sound for the names that have a file; NextControl and
\* NextLoading vary the arguments and load every name
Next ==
    \/ \E n \in Names : Play(n, DefaultVolume) /\ UNCHANGED timing
    \/ \E n \in Names \cap FileExists : LoadSound(n, NoPath, NoCategory)
    \/ \E n \in Names : StopSound(n)
    \/ StopAll
    \/ Update
    \/ Cleanup
    \/ \E c \in DOMAIN chan : ChannelFinish(c)
    \/ Tick

Spec == Init /\ [][Next]_vars

----------------------------------------------------------------------------
(* Volume, pause and bulk loading *)

\* the volumes passed to set_master_volume and set_sfx_volume: -1.0, 0.0,
\* 0.5, 1.0 and 5.0
VolumeInputs == {0 - Unit, 0, Unit \div 2, Unit, 5 * Unit}

\* set_master_volume(volume)
SetMasterVolume(v) ==
    /\ master_volume' = Clamp(v)
    /\ sound_volume' = UpdateAllVolumes(Clamp(v), sfx_volume)
    /\ last' = Call("set_master_volume", "none", "ok", v)
    /\ UNCHANGED <<plays, now, num_channels, timing, chan, sounds, sound_configs,
                   playing_instances, last_play_time, play_count, streak,
                   sfx_volume, paused>>

\* set_sfx_volume(volume)
SetSfxVolume(v) ==
    /\ sfx_volume' = Clamp(v)
    /\ sound_volume' = UpdateAllVolumes(master_volume, Clamp(v))
    /\ last' = Call("set_sfx_volume", "none", "ok", v)
    /\ UNCHANGED <<plays, now, num_channels, timing, chan, sounds, sound_configs,
                   playing_instances, last_play_time, play_count, streak,
                   master_volume, paused>>

\* pause_all that stops instead of pausing
PauseAll_Stops ==
    /\ chan' = [c \in DOMAIN chan |-> Idle]
    /\ playing_instances' = <<>>
    /\ paused' = {}
    /\ last' = Call("pause_all", "none", "ok", 0)
    /\ UNCHANGED <<plays, now, num_channels, timing, sounds, sound_configs,
                   last_play_time, play_count, streak, master_volume,
                   sfx_volume, sound_volume>>

\* pause_all(): pygame.mixer.pause() pauses every channel that is playing
PauseAll ==
    /\ paused' = {c \in DOMAIN chan : Busy(chan, c)}
    /\ last' = Call("pause_all", "none", "ok", 0)
    /\ UNCHANGED <<plays, now, num_channels, timing, chan, sounds, sound_configs,
                   playing_instances, last_play_time, play_count, streak,
                   master_volume, sfx_volume, sound_volume>>

\* unpause_all(): pygame.mixer.unpause()
UnpauseAll ==
    /\ paused' = {}
    /\ last' = Call("unpause_all", "none", "ok", 0)
    /\ UNCHANGED <<plays, now, num_channels, timing, chan, sounds, sound_configs,
                   playing_instances, last_play_time, play_count, streak,
                   master_volume, sfx_volume, sound_volume>>

\* the tables of the manager, as load_configured_sounds finds them
CurrentTables ==
    [sounds |-> sounds, configs |-> sound_configs, counts |-> play_count,
     volumes |-> sound_volume, results |-> [n \in {} |-> FALSE]]

\* load_configured_sounds(); the count kept is the number of True results
LoadConfiguredSounds ==
    LET r == LoadConfigured(MappingOrder, CurrentTables,
                            master_volume, sfx_volume)
    IN /\ sounds' = r.sounds
       /\ sound_configs' = r.configs
       /\ play_count' = r.counts
       /\ sound_volume' = r.volumes
       /\ last' = Call("load_configured_sounds", "none", "ok",
                       Cardinality({n \in DOMAIN r.results : r.results[n]}))
       /\ UNCHANGED <<plays, now, num_channels, timing, chan, playing_instances,
                      last_play_time, streak, master_volume, sfx_volume,
                      paused>>

\* the manager with its volume, pause and bulk-loading calls; the clock
\* moves only between the two readings of play
NextControl ==
    \/ \E n \in Names : \E v \in PlayVolumes :
           plays < MaxControlPlays /\ Play(n, v) /\ UNCHANGED timing
    \/ \E n \in Names : LoadSound(n, NoPath, NoCategory)
    \/ \E v \in VolumeInputs : SetMasterVolume(v)
    \/ \E v \in VolumeInputs : SetSfxVolume(v)
    \/ PauseAll
    \/ UnpauseAll
    \/ LoadConfiguredSounds
    \/ Cleanup
    \/ \E c \in DOMAIN chan : ChannelFinish(c)

SpecControl == Init /\ [][NextControl]_vars

\* the manager with its loading calls, their arguments varied, and cleanup
NextLoading ==
    \/ \E n \in Names : \E v \in PlayVolumes :
           plays < MaxControlPlays /\ Play(n, v) /\ UNCHANGED timing
    \/ \E n \in Names : \E path \in PathInputs : \E category \in CategoryInputs :
           LoadSound(n, path, category)
    \/ LoadAllSfx
    \/ LoadConfiguredSounds
    \/ Cleanup
    \/ \E c \in DOMAIN chan : ChannelFinish(c)

SpecLoading == Init /\ [][NextLoading]_vars

----------------------------------------------------------------------------
(* SoundEffect.play_sequence and the timers of pygame.time *)

\* a delay of the list delays: its value in milliseconds, and whether it was
\* passed as a float (then delay * 1000 is a float) or as an int
Delay(ms, is_float) == [ms |-> ms, is_float |-> is_float]

\* the 0.1 that play_sequence fills delays with
DefaultDelay == Delay(100, TRUE)

\* the delays passed to play_sequence: 0, 1 and 2 (int), 0.5 (float)
DelayInputs ==
    {Delay(0, FALSE), Delay(1000, FALSE), Delay(2000, FALSE), Delay(500, TRUE)}

\* the volumes passed to play_sequence: 0.5, 1.0
SequenceVolumes == {Unit \div 2, Unit}

\* the argument delays: a list, or None
Given(list) == [given |-> TRUE, list |-> list]
NoDelays == [given |-> FALSE, list |-> <<>>]

\* the lists over S of at most n elements
ListsUpTo(S, n) == UNION {[1 .. k -> S] : k \in 0 .. n}

\* play_sequence: delays, filled up with 0.1 to the length of sound_names
PadDelays(names, d) ==
    IF ~d.given THEN [k \in 1 .. Len(names) |-> DefaultDelay]
    ELSE IF Len(d.list) < Len(names)
    THEN d.list \o [k \in 1 .. (Len(names) - Len(d.list)) |-> DefaultDelay]
    ELSE d.list

\* delay_ms = int(sum(delays[:i]) * 1000), for the index i from 0
RECURSIVE DelayMs(_, _)
DelayMs(d, i) == IF i = 0 THEN 0 ELSE d[i].ms + DelayMs(d, i - 1)

\* the timers without the one of index k
WithoutTimer(t, k) == [j \in DOMAIN t \ {k} |-> t[j]]

\* pygame.time.set_timer(event, millis, loops=1) for the event of index k:
\* millis = 0 removes the timer of that event
SetTimer(t, k, millis) ==
    IF millis = 0 THEN WithoutTimer(t, k) ELSE Put(t, k, millis)

\* the loop of play_sequence has handled index position
Advance ==
    /\ position' = position + 1
    /\ outcome' = IF position + 1 = Len(sound_names) THEN "returned"
                  ELSE "running"

\* play_sequence(sound_names, delays, volume) up to its loop
PlaySequence(names, d, v) ==
    /\ outcome = "idle"
    /\ IF names = <<>>
       THEN /\ outcome' = "returned"
            /\ UNCHANGED <<sound_names, delays, sequence_volume>>
       ELSE /\ outcome' = "running"
            /\ sound_names' = names
            /\ delays' = PadDelays(names, d)
            /\ sequence_volume' = v
    /\ UNCHANGED <<position, started, timers, fired>>
    /\ UNCHANGED <<now, num_channels, chan, sounds, sound_configs,
                   playing_instances, last_play_time, play_count,
                   master_volume, sfx_volume, sound_volume, paused, plays,
                   streak, last>>

\* the loop of play_sequence at an index whose delay_ms is 0:
\* audio_manager.play(sound_name, volume)
SequencePlay ==
    /\ outcome = "running"
    /\ DelayMs(delays, position) = 0
    /\ Play(sound_names[position + 1], sequence_volume)
    /\ started' = Append(started, [index |-> position, res |-> last'.res])
    /\ Advance
    /\ UNCHANGED <<sound_names, delays, sequence_volume, timers, fired>>

\* the loop of play_sequence at an index whose delay_ms is not 0:
\* pygame.time.set_timer(USEREVENT + 100 + i, delays[i - 1] * 1000, loops=1)
SequenceSetTimer ==
    /\ outcome = "running"
    /\ DelayMs(delays, position) # 0
    /\ timers' = SetTimer(timers, position, delays[position].ms)
    /\ Advance
    /\ UNCHANGED <<sound_names, delays, sequence_volume, started, fired>>
    /\ UNCHANGED <<now, num_channels, chan, sounds, sound_configs,
                   playing_instances, last_play_time, play_count,
                   master_volume, sfx_volume, sound_volume, paused, plays,
                   streak, last>>

\* set_timer is passed a float: a build that takes only an int for millis
\* raises TypeError, which ends play_sequence
SequenceSetTimerRaises ==
    /\ outcome = "running"
    /\ DelayMs(delays, position) # 0
    /\ delays[position].is_float
    /\ outcome' = "raised"
    /\ UNCHANGED <<sound_names, delays, sequence_volume, position, started, timers, fired>>
    /\ UNCHANGED <<now, num_channels, chan, sounds, sound_configs,
                   playing_instances, last_play_time, play_count,
                   master_volume, sfx_volume, sound_volume, paused, plays,
                   streak, last>>

\* the pending timer of index k is due first and fires, once
TimerFires(k) ==
    /\ outcome \in {"returned", "raised"}
    /\ k \in DOMAIN timers
    /\ \A j \in DOMAIN timers : timers[k] <= timers[j]
    /\ fired' = Append(fired, [index |-> k, at |-> timers[k]])
    /\ timers' = WithoutTimer(timers, k)
    /\ UNCHANGED <<sound_names, delays, sequence_volume, position, outcome, started>>
    /\ UNCHANGED <<now, num_channels, chan, sounds, sound_configs,
                   playing_instances, last_play_time, play_count,
                   master_volume, sfx_volume, sound_volume, paused, plays,
                   streak, last>>

\* one call of play_sequence on the manager as constructed, and its timers
NextSequence ==
    \/ \E names \in ListsUpTo(Names, MaxSequence) :
           \E d \in {Given(l) : l \in ListsUpTo(DelayInputs, MaxSequence)}
                       \cup {NoDelays} :
               \E v \in SequenceVolumes : PlaySequence(names, d, v)
    \/ SequencePlay
    \/ SequenceSetTimer
    \/ SequenceSetTimerRaises
    \/ \E k \in 0 .. (MaxSequence - 1) : TimerFires(k)

SpecSequence == Init /\ [][NextSequence]_vars

----------------------------------------------------------------------------
(* Properties *)

\* the playback that occupies a busy channel c: chan[c]
BusyChannels == {c \in DOMAIN chan : Busy(chan, c)}

\* play(n) would pass the interval check of _can_play_sound now
PassesRateCheck(n) ==
    ~(n \in DOMAIN last_play_time
        /\ now - last_play_time[n] < ConfigOf(n).min_delay)

\* this step is a call play(n, v), for some volume v, which the record of
\* the call holds
Plays(n) == last'.count \in PlayVolumes /\ Play(n, last'.count)

\* this step is a call play(n, v) that starts the sound, the clock being
\* read e later
Starts(n, e) ==
    last'.count \in PlayVolumes /\ PlayStarted(n, last'.count, e)

\* this step is a call load_sound(n, file_path, category)
Loads(n) ==
    \E path \in PathInputs : \E category \in CategoryInputs :
        LoadSound(n, path, category)

\* C1: at most one instance of the active list references a given channel
C1_OneInstancePerChannel ==
    \A i, j \in 1 .. Len(playing_instances) :
        i # j => playing_instances[i].channel_id # playing_instances[j].channel_id

\* C2: the active list is never longer than the channel count, so the
\* available_channels value of get_status is never negative
C2_PoolNeverExceeded ==
    /\ Len(playing_instances) <= num_channels
    /\ AvailableChannels >= 0

\* C3: when every channel is busy and play starts a sound, it halts the
\* channel whose playback started earliest and no other, removes exactly that
\* one instance, and binds the new instance, alone, to that channel
C3_EvictsOldestOnly ==
    [][\A n \in Names : \A e \in {0, Step} :
          (Starts(n, e) /\ BusyChannels = DOMAIN chan) =>
              \E c \in DOMAIN chan :
                  /\ \A d \in DOMAIN chan : chan[c].since <= chan[d].since
                  /\ \A d \in DOMAIN chan : d # c => chan'[d] = chan[d]
                  /\ chan'[c].snd = n
                  /\ Len(playing_instances') = Len(playing_instances)
                  /\ \A k \in 1 .. Len(playing_instances') :
                         (playing_instances'[k].channel_id = c)
                             <=> (k = Len(playing_instances'))]_vars

\* C4: play fails for lack of a channel only when the pool has no channel
C4_NoChannelOnlyIfEmptyPool ==
    (last.op = "play" /\ last.res = "NoChannelAvailable") => num_channels = 0

\* C5: play(A) is rejected as rate limited, changing nothing, while less than
\* A's minimum delay has passed since A's last successful start; a successful
\* play starts at least that delay after the previous one; only a successful
\* play of A moves A's reference time; so the start times of the active
\* instances of A are at least the delay apart
C5_RateLimit ==
    /\ [](\A i, j \in 1 .. Len(playing_instances) :
            (i < j /\ playing_instances[i].sound_name
                          = playing_instances[j].sound_name) =>
                playing_instances[j].start_time - playing_instances[i].start_time
                    >= ConfigOf(playing_instances[i].sound_name).min_delay)
    /\ [][/\ \A n \in Names :
               (~PassesRateCheck(n) /\ last'.op = "play" /\ last'.name = n
                    /\ Plays(n)) =>
                   /\ last'.res = "RateLimited"
                   /\ UNCHANGED <<last_play_time, playing_instances, chan>>
          /\ \A n \in DOMAIN last_play_time :
               (last'.res = "ok" /\ last'.op = "play" /\ last'.name = n
                    /\ Plays(n)) =>
                   last_play_time'[n] - last_play_time[n]
                       >= ConfigOf(n).min_delay
          /\ last_play_time' # last_play_time =>
               \E n \in Names :
                   /\ Plays(n) /\ last'.res = "ok"
                   /\ last_play_time' = Put(last_play_time, n, now')]_vars

\* a rejection for the rate limit after two successful plays of the name
C5_Witness ==
    /\ last.op = "play" /\ last.res = "RateLimited"
    /\ ConfigOf(last.name).min_delay > 0
    /\ last.name \in DOMAIN play_count
    /\ play_count[last.name] >= 2

\* C6: the active list never holds more instances of a name than the name's
\* max_instances, and play of a name that is at its maximum is rejected
C6_ConcurrencyLimit ==
    /\ [](\A n \in Names :
            CountOf(playing_instances, n) <= ConfigOf(n).max_instances)
    /\ [][\A n \in Names :
            (CountOf(playing_instances, n) >= ConfigOf(n).max_instances
                /\ last'.op = "play" /\ last'.name = n /\ Plays(n))
                => (last'.res # "ok" /\ playing_instances' = playing_instances)]_vars

\* a play rejected because the name is at its maximum
C6_Witness ==
    /\ last.op = "play" /\ last.res = "ConcurrencyLimited"
    /\ CountOf(playing_instances, last.name) = ConfigOf(last.name).max_instances

\* C7, as stated: after max_instances successful plays of a name, none of
\* which completed, a further play of it that passes the interval check fails
\* with ConcurrencyLimited
C7_FailsAfterNPlays ==
    [][\A n \in Names :
          (streak[n] >= ConfigOf(n).max_instances
               /\ PassesRateCheck(n) /\ Plays(n))
              => last'.res = "ConcurrencyLimited"]_vars

\* C7, amended: while max_instances instances of a name are in the active
\* list, a play of it that passes the interval check fails with
\* ConcurrencyLimited, halts no channel and changes no table
C7_FailsWhileNActive ==
    [][\A n \in Names :
          (CountOf(playing_instances, n) = ConfigOf(n).max_instances
               /\ PassesRateCheck(n)
               /\ last'.op = "play" /\ last'.name = n /\ Plays(n))
              => /\ last'.res = "ConcurrencyLimited"
                 /\ UNCHANGED <<chan, playing_instances, last_play_time,
                                play_count, sounds>>]_vars

\* the play after max_instances uncompleted plays, all still in the list, was
\* rejected for the instance limit
C7_Witness ==
    /\ last.op = "play" /\ last.res = "ConcurrencyLimited"
    /\ streak[last.name] = ConfigOf(last.name).max_instances
    /\ CountOf(playing_instances, last.name) = ConfigOf(last.name).max_instances
    /\ \A k \in 1 .. Len(playing_instances) :
           Busy(chan, playing_instances[k].channel_id)

\* C8: update() polls the channels: it leaves no instance whose channel has
\* finished
C8_UpdateDropsFinished ==
    [][Update =>
          \A k \in 1 .. Len(playing_instances') :
              Busy(chan', playing_instances'[k].channel_id)]_vars

\* C9: get_playing_sounds() is exactly the set of names that occupy a busy
\* channel
C9_PlayingNamesExact ==
    GetPlayingSounds = {chan[c].snd : c \in BusyChannels}

\* C10: stop_sound(name) removes every instance of the name and returns how
\* many there were
C10_StopSoundRemovesAll ==
    [][\A n \in Names :
          StopSound(n) =>
              /\ CountOf(playing_instances', n) = 0
              /\ last'.count = CountOf(playing_instances, n)]_vars

\* C11: stop_all() leaves every channel idle and the active list empty, so
\* get_playing_sounds() is empty right after it
C11_StopAllEmpties ==
    [][StopAll =>
          /\ \A c \in DOMAIN chan' : ~Busy(chan', c)
          /\ playing_instances' = <<>>
          /\ {playing_instances'[k].sound_name : k \in
                 {j \in 1 .. Len(playing_instances') :
                     Busy(chan', playing_instances'[j].channel_id)}} = {}]_vars

\* stop_all() has run after sounds were played
C11_Witness ==
    /\ last.op = "stop_all"
    /\ plays >= 2
    /\ playing_instances = <<>>
    /\ GetPlayingSounds = {}

\* the positions of the instances younger than the staleness bound
YoungPositions ==
    {i \in 1 .. Len(playing_instances) :
        now - playing_instances[i].start_time < MaxAge}

\* C12: update() keeps exactly the instances younger than 10 seconds, in
\* their order and unchanged, whatever their channels do, and touches no
\* channel; no instance left is 10 seconds old or older
C12_UpdateSweepsByAge ==
    [][Update =>
          /\ Len(playing_instances') = Cardinality(YoungPositions)
          /\ \A k \in 1 .. Len(playing_instances') :
                 \E i \in YoungPositions :
                     /\ Cardinality({j \in YoungPositions : j <= i}) = k
                     /\ playing_instances'[k] = playing_instances[i]
          /\ \A k \in 1 .. Len(playing_instances') :
                 now' - playing_instances'[k].start_time < MaxAge
          /\ chan' = chan]_vars

\* update() has swept an instance whose channel is still busy and kept a
\* younger one
C12_Witness ==
    /\ last.op = "update"
    /\ playing_instances # <<>>
    /\ \E c \in DOMAIN chan :
           /\ Busy(chan, c)
           /\ now - chan[c].since >= MaxAge
           /\ \A k \in 1 .. Len(playing_instances) :
                  playing_instances[k].channel_id # c

\* C13: cleanup() leaves the asset table, the configurations, the active
\* list, the last play times and the play counts all empty
C13_CleanupClearsAll ==
    [][Cleanup =>
          /\ sounds' = {}
          /\ DOMAIN sound_configs' = {}
          /\ playing_instances' = <<>>
          /\ DOMAIN last_play_time' = {}
          /\ DOMAIN play_count' = {}]_vars

\* C14, as stated: the call that follows cleanup() loads no asset and is no
\* successful play
C14_CleanupTerminal ==
    [][last.op = "cleanup" =>
          /\ sounds' = {}
          /\ ~(last'.op = "play" /\ last'.res = "ok")]_vars

\* C14, amended: cleanup() leaves no asset loaded and no instance active; an
\* asset becomes loaded again only by load_sound, by the on-demand load of
\* play, by load_configured_sounds or by load_all_sfx, and only if the file
\* it is loaded from exists and decodes; a play that succeeds leaves its
\* asset loaded
C14_CleanupReloadable ==
    [][/\ Cleanup => (sounds' = {} /\ playing_instances' = <<>>)
       /\ \A n \in Names :
              (n \notin sounds /\ n \in sounds') =>
                  \/ /\ last'.op = "play" /\ last'.name = n
                     /\ n \in FileExists /\ n \notin DecodeFails
                  \/ /\ last'.op = "load_sound" /\ last'.name = n
                     /\ \E path \in PathInputs : \E category \in CategoryInputs :
                            /\ FilePath(n, path) \in FileExists
                            /\ FilePath(n, path) \notin DecodeFails
                            /\ LoadSound(n, path, category)
                  \/ /\ last'.op = "load_configured_sounds"
                     /\ n \in DOMAIN SOUND_MAPPINGS
                     /\ n \in FileExists /\ n \notin DecodeFails
                  \/ /\ last'.op = "load_all_sfx"
                     /\ n \in FileExists /\ n \notin DecodeFails
       /\ \A n \in Names :
              (last'.op = "play" /\ last'.name = n /\ last'.res = "ok"
                   /\ Plays(n)) => n \in sounds']_vars

\* after cleanup() unloaded the configured asset, a play of another asset
\* loaded it on demand and succeeded
C14_Witness ==
    /\ "a" \notin sounds
    /\ last.op = "play" /\ last.res = "ok"
    /\ last.name \in sounds
    /\ playing_instances # <<>>

\* the configuration load_sound is to store: the table's, or the defaults
\* with the category passed, if one is
ExpectedConfig(n, category) ==
    IF n \in DOMAIN SOUND_MAPPINGS THEN SOUND_MAPPINGS[n]
    ELSE [category |-> IF category = NoCategory THEN "other" ELSE category,
          max_instances |-> MAX_SOUND_INSTANCES, min_delay |-> MIN_PLAY_DELAY,
          volume |-> Unit]

\* this step is a successful play of n
PlaySucceeds(n) ==
    last'.op = "play" /\ last'.name = n /\ last'.res = "ok" /\ Plays(n)

\* this step is load_configured_sounds loading n anew
Reloads(n) ==
    /\ last'.op = "load_configured_sounds"
    /\ n \in DOMAIN SOUND_MAPPINGS
    /\ n \in FileExists /\ n \notin DecodeFails
    /\ LoadConfiguredSounds

\* C15: when a sound becomes loaded, get_sound_info reports its configuration
\* (the table's or the defaults) and play count 0, or 1 if the loading call is
\* a play that succeeds; while it stays loaded the reported count rises by one
\* with each successful play of it and by nothing else, until it is loaded anew
C15_InfoCountsPlays ==
    [][\A n \in Names :
          /\ (n \notin sounds /\ n \in sounds') =>
                 /\ IF last'.op = "load_sound"
                    THEN \E path \in PathInputs : \E category \in CategoryInputs :
                             /\ LoadSound(n, path, category)
                             /\ sound_configs'[n] = ExpectedConfig(n, category)
                    ELSE sound_configs'[n] = ExpectedConfig(n, NoCategory)
                 /\ Get(play_count', n, 0) = IF PlaySucceeds(n) THEN 1 ELSE 0
          /\ (n \in sounds /\ n \in sounds' /\ ~Reloads(n)) =>
                 /\ Get(sound_configs', n, DefaultConfig)
                        = Get(sound_configs, n, DefaultConfig)
                 /\ Get(play_count', n, 0) =
                        Get(play_count, n, 0) + IF PlaySucceeds(n) THEN 1 ELSE 0
          /\ Reloads(n) => Get(play_count', n, 0) = 0]_vars

\* a sound outside the table was loaded by its first play, which succeeded:
\* get_sound_info reports the defaults and play count 1
C15_Witness ==
    /\ last.op = "play" /\ last.res = "ok" /\ last.name = "b"
    /\ GetSoundInfo("b").is_loaded
    /\ GetSoundInfo("b").play_count = 1
    /\ GetSoundInfo("b").config = DefaultConfig

\* C16: load_sound of a sound that is already loaded returns True and leaves
\* the tables, the active list and the mixer as they are
C16_LoadIdempotent ==
    [][\A n \in Names :
          (n \in sounds /\ last'.op = "load_sound" /\ last'.name = n
               /\ Loads(n)) =>
              /\ last'.res = "ok"
              /\ UNCHANGED <<sounds, sound_configs, play_count, last_play_time,
                             playing_instances, chan, sound_volume>>]_vars

\* load_sound has returned True for a sound played since it was loaded
C16_Witness ==
    /\ last.op = "load_sound" /\ last.res = "ok"
    /\ last.name \in sounds
    /\ Get(play_count, last.name, 0) >= 1
    /\ CountOf(playing_instances, last.name) >= 1

\* C17: load_configured_sounds() returns an entry for every name of the
\* table, True exactly for the names whose file exists and decodes, and
\* leaves each of those loaded with its configuration from the table
C17_LoadConfiguredAggregates ==
    [][(last'.op = "load_configured_sounds" /\ LoadConfiguredSounds) =>
          LET results == LoadConfigured(MappingOrder, CurrentTables,
                                        master_volume, sfx_volume).results
          IN /\ DOMAIN results = DOMAIN SOUND_MAPPINGS
             /\ \A n \in DOMAIN SOUND_MAPPINGS :
                    results[n] = (n \in FileExists /\ n \notin DecodeFails)
             /\ \A n \in DOMAIN SOUND_MAPPINGS :
                    (n \in FileExists /\ n \notin DecodeFails) =>
                        /\ n \in sounds'
                        /\ sound_configs'[n] = SOUND_MAPPINGS[n]
             /\ last'.count =
                    Cardinality({n \in DOMAIN SOUND_MAPPINGS :
                        n \in FileExists /\ n \notin DecodeFails})]_vars

\* load_configured_sounds() has loaded the asset that follows two failing
\* ones in the table, after cleanup() had unloaded everything
C17_Witness ==
    /\ last.op = "load_configured_sounds"
    /\ last.count = 1
    /\ sounds = {"a"}
    /\ "a" \in DOMAIN last_play_time

\* the argument of a volume setter brought into [0, 1] by hand
InRange(v) == IF v < 0 THEN 0 ELSE IF v > Unit THEN Unit ELSE v

\* C18: set_master_volume(v) and set_sfx_volume(v) leave their multiplier in
\* [0, 1] and leave the state that the call with v brought into range leaves
\* (with 0 for v below 0, with 1 for v above 1); a second identical call
\* would change nothing, every loaded sound being at base * master * effects
C18_VolumeClampIdempotent ==
    [][\A v \in VolumeInputs :
          /\ (last'.op = "set_master_volume" /\ last'.count = v
                  /\ SetMasterVolume(v)) =>
                 /\ master_volume' \in 0 .. Unit
                 /\ master_volume' = InRange(v)
                 /\ master_volume' = Clamp(InRange(v))
                 /\ sound_volume' = UpdateAllVolumes(Clamp(InRange(v)), sfx_volume)
                 /\ sound_volume' =
                        [n \in sounds' |->
                            Mul(Mul(sound_configs'[n].volume, master_volume'),
                                sfx_volume')]
                 /\ UNCHANGED <<sfx_volume, sounds, sound_configs,
                                playing_instances, chan>>
          /\ (last'.op = "set_sfx_volume" /\ last'.count = v
                  /\ SetSfxVolume(v)) =>
                 /\ sfx_volume' \in 0 .. Unit
                 /\ sfx_volume' = InRange(v)
                 /\ sfx_volume' = Clamp(InRange(v))
                 /\ sound_volume' = UpdateAllVolumes(master_volume, Clamp(InRange(v)))
                 /\ sound_volume' =
                        [n \in sounds' |->
                            Mul(Mul(sound_configs'[n].volume, master_volume'),
                                sfx_volume')]
                 /\ UNCHANGED <<master_volume, sounds, sound_configs,
                                playing_instances, chan>>]_vars

\* set_master_volume(5.0) has run while the effects volume was 0.5: the
\* master volume is 1.0 and the loaded sound of base volume 0.5 is at 0.25
C18_Witness ==
    /\ last.op = "set_master_volume"
    /\ last.count = 5 * Unit
    /\ master_volume = Unit
    /\ sfx_volume = Unit \div 2
    /\ "a" \in sounds
    /\ sound_volume["a"] = Unit \div 4

\* C19: pause_all() and unpause_all() leave the active list, with every start
\* time, the last play times and the play counts as they are
C19_PauseKeepsBookkeeping ==
    [][(PauseAll \/ UnpauseAll) =>
          UNCHANGED <<playing_instances, last_play_time, play_count>>]_vars

\* pause_all() has paused a playing channel whose instance is in the list
C19_Witness ==
    /\ last.op = "pause_all"
    /\ paused # {}
    /\ \E k \in 1 .. Len(playing_instances) :
           playing_instances[k].channel_id \in paused
    /\ DOMAIN last_play_time # {}

\* C20: a play that fails leaves the active list, the mixer, the sound's last
\* play time and its play count as they are; a play that succeeds ends the
\* list with one new instance of the sound, sets the last play time to its
\* start time and raises the play count by one
C20_FailedPlayChangesNothing ==
    [][\A n \in Names :
          (last'.op = "play" /\ last'.name = n /\ Plays(n)) =>
              IF last'.res # "ok"
              THEN /\ UNCHANGED <<playing_instances, chan>>
                   /\ Get(last_play_time', n, 0 - 1) = Get(last_play_time, n, 0 - 1)
                   /\ Get(play_count', n, 0) = Get(play_count, n, 0)
              ELSE /\ playing_instances' # <<>>
                   /\ playing_instances'[Len(playing_instances')].sound_name = n
                   /\ CountOf(playing_instances', n)
                          <= CountOf(playing_instances, n) + 1
                   /\ last_play_time'[n] =
                          playing_instances'[Len(playing_instances')].start_time
                   /\ Get(play_count', n, 0) = Get(play_count, n, 0) + 1]_vars

\* C21: stop_sound(name) halts no playback of another asset: every channel
\* playing another asset before the call plays it, from the same start, after
\* the call, and the instances of other assets stay in the list, in order
C21_StopSoundSparesOthers ==
    [][\A n \in Names :
          (last'.op = "stop_sound" /\ last'.name = n /\ StopSound(n)) =>
              /\ \A c \in DOMAIN chan :
                     (Busy(chan, c) /\ chan[c].snd # n) => chan'[c] = chan[c]
              /\ SelectSeq(playing_instances', LAMBDA i : i.sound_name # n)
                     = SelectSeq(playing_instances, LAMBDA i : i.sound_name # n)]_vars

\* the timer of a later sound has fired while that of an earlier one is
\* pending, or before it
LaterTimerFirst ==
    \/ \E j \in 1 .. Len(fired) : \E k \in DOMAIN timers : k < fired[j].index
    \/ \E j, k \in 1 .. Len(fired) : j < k /\ fired[k].index < fired[j].index

\* C22: play_sequence handles the sounds in list order: each index it has
\* handled was played at once if its cumulative delay is 0 and otherwise has
\* a timer that fires, or fired, at its cumulative delay after the call; no
\* timer of a later sound fires before the timer of an earlier one
C22_SequenceInOrder ==
    /\ \A j, k \in 1 .. Len(started) :
           j < k => started[j].index < started[k].index
    /\ \A k \in 0 .. (position - 1) :
           IF DelayMs(delays, k) = 0
           THEN /\ \E j \in 1 .. Len(started) : started[j].index = k
                /\ k \notin DOMAIN timers
           ELSE /\ \A j \in 1 .. Len(started) : started[j].index # k
                /\ \/ k \in DOMAIN timers /\ timers[k] = DelayMs(delays, k)
                   \/ \E j \in 1 .. Len(fired) :
                          /\ fired[j].index = k
                          /\ fired[j].at = DelayMs(delays, k)
    /\ ~LaterTimerFirst

====
